---- MODULE Spec2Model ----
(***************************************************************************)
(* Model of the WSA UDP zero-copy transport,                               *)
(* host/lib/transport/udp_wsa_zero_copy.cpp:                               *)
(*   - udp_zero_copy_asio_mrb : reusable managed receive buffer            *)
(*   - udp_zero_copy_asio_msb : reusable managed send buffer               *)
(*   - udp_zero_copy_wsa_impl : get_recv_buff / get_send_buff              *)
(* Receive buffers are numbered 1..NumRecvFrames (0 is the NULL pointer),  *)
(* send buffers 0..NumSendFrames-1 as in _msb_pool.                        *)
(***************************************************************************)
EXTENDS Integers, Sequences, FiniteSets, TLC

(* ------------------------------ bounds -------------------------------- *)
NumRecvFrames == 2      \* hints "num_recv_frames"
NumSendFrames == 2      \* hints "num_send_frames"
RecvFrameSize == 1      \* hints "recv_frame_size"
SendFrameSize == 2      \* hints "send_frame_size"
NumThreads    == 2      \* threads calling get_recv_buff / release
MaxTimeout    == 1      \* largest timeout (in ticks) a caller passes
MaxSock       == 1      \* datagrams the OS socket buffer can hold
MaxSendCalls  == 5      \* successful get_send_buff calls that are counted
MaxInFlight   == 2      \* cap on the counter of uncompleted WSASend calls
SizeBits      == 8      \* width of size_t, scaled down

SizeModulus == 2 ^ SizeBits

RecvBuffs == 1 .. NumRecvFrames
SendBuffs == 0 .. (NumSendFrames - 1)
Threads   == 1 .. NumThreads
NULL      == 0
NoCall    == -2         \* no call has returned yet / a call is in progress
None      == -1         \* an empty sptr was returned

VARIABLES
    \* ---- receive side ----
    pending,     \* _pending_recv_buffs : sequence of mrb handles
    len,         \* udp_zero_copy_asio_mrb::_len, per receive buffer
    sock,        \* datagrams queued in the OS for _sock_fd (their lengths)
    pc,          \* per thread: position inside get_recv_buff / release
    mrb,         \* per thread: local `mrb` of get_recv_buff, `this` of release
    tmo,         \* per thread: the timeout argument of the call in progress
    phase,       \* per thread: ticks spent in the current blocking wait
    waited,      \* per thread: ticks spent blocked in the whole call
    result,      \* per thread: what the last get_recv_buff returned
    handles,     \* per thread: buffers whose sptr the caller holds
    everArrived, \* history: some datagram has arrived on the socket
    kept,        \* per thread: buffers released by an explicit release() call
                 \* whose sptr the caller still owns
    relAgain,    \* history: the buffer on which the step just taken called
                 \* release() a second time and found _len = 0 (else NULL)
    \* ---- send side ----
    committed,   \* udp_zero_copy_asio_msb::_committed
    wsaLen,      \* udp_zero_copy_asio_msb::_wsa_buff.len
    event,       \* _overlapped.hEvent is signalled
    inFlight,    \* number of WSASend calls submitted and not yet completed
    index,       \* _next_send_buff_index
    sendPc,      \* position of the sender inside get_send_buff
    target,      \* buffer whose get_new is executing (or executed last)
    sendHeld,    \* buffer handed out by get_send_buff and not yet committed
    handedOut,   \* the caller owns an sptr to the buffer (may call commit)
    sendResult,  \* what the last get_send_buff returned
    nsucc,       \* history: number of successful get_send_buff calls
    oldLen,      \* history: _wsa_buff.len of the buffer handed out last, as it
                 \* was before get_new reset it
    lastOp       \* history: the last send-side operation <<name, buffer>>

recvVars == <<pending, len, sock, pc, mrb, tmo, phase, waited, result,
              handles, everArrived, kept, relAgain>>
sendVars == <<committed, wsaLen, event, inFlight, index, sendPc, target,
              sendHeld, handedOut, sendResult, nsucc, oldLen, lastOp>>
vars == <<pending, len, sock, pc, mrb, tmo, phase, waited, result,
          handles, everArrived, kept, relAgain, committed, wsaLen, event, inFlight, index,
          sendPc, target, sendHeld, handedOut, sendResult, nsucc, oldLen, lastOp>>

(* ------------------------- bounded_buffer ------------------------------ *)
\* bounded_buffer::push_with_haste: insert unless the buffer is full
push_with_haste(q, elem) ==
    IF Len(q) < NumRecvFrames THEN Append(q, elem) ELSE q

\* the queue without its k-th entry (the entry a pop takes)
RemoveAt(q, k) ==
    [j \in 1 .. (Len(q) - 1) |-> IF j < k THEN q[j] ELSE q[j + 1]]

InQueue(b) == \E k \in 1 .. Len(pending) : pending[k] = b

(* ---------------------------- the socket ------------------------------- *)
\* ::recv on the non-blocking socket: -1 when nothing is queued,
\* else the length of the datagram at the head
recv_ret(s) == IF s = <<>> THEN -1 ELSE Head(s)
recv_rest(s) == IF s = <<>> THEN s ELSE Tail(s)

\* conversion of the ssize_t result of ::recv to the size_t parameter of get_new
to_size_t(n) == n % SizeModulus

\* wait_for_recv_ready: the socket is readable
recv_ready(s) == s # <<>>

(* ------------------------------ Init ----------------------------------- *)
RecvInit ==
    /\ pending = [k \in 1 .. NumRecvFrames |-> k]
    /\ len = [b \in RecvBuffs |-> 0]
    /\ sock = <<>>
    /\ pc = [t \in Threads |-> "idle"]
    /\ mrb = [t \in Threads |-> NULL]
    /\ tmo = [t \in Threads |-> 0]
    /\ phase = [t \in Threads |-> 0]
    /\ waited = [t \in Threads |-> 0]
    /\ result = [t \in Threads |-> NoCall]
    /\ handles = [t \in Threads |-> {}]
    /\ everArrived = FALSE
    /\ kept = [t \in Threads |-> {}]
    /\ relAgain = NULL

\* SendInit without the `this->commit(0)` of the buffers' constructor
SendInit_nocommit ==
    /\ committed = [i \in SendBuffs |-> FALSE]
    /\ wsaLen = [i \in SendBuffs |-> 0]
    /\ event = [i \in SendBuffs |-> FALSE]
    /\ inFlight = [i \in SendBuffs |-> 0]
    /\ index = 0
    /\ sendPc = "idle"
    /\ target = 0
    /\ sendHeld = [i \in SendBuffs |-> FALSE]
    /\ handedOut = [i \in SendBuffs |-> FALSE]
    /\ sendResult = NoCall
    /\ nsucc = 0
    /\ oldLen = 0
    /\ lastOp = <<"init", 0>>

\* the send buffers after construction: _committed(false), then commit(0)
SendInit ==
    /\ committed = [i \in SendBuffs |-> TRUE]
    /\ wsaLen = [i \in SendBuffs |-> 0]
    /\ event = [i \in SendBuffs |-> TRUE]
    /\ inFlight = [i \in SendBuffs |-> 0]
    /\ index = 0
    /\ sendPc = "idle"
    /\ target = 0
    /\ sendHeld = [i \in SendBuffs |-> FALSE]
    /\ handedOut = [i \in SendBuffs |-> FALSE]
    /\ sendResult = NoCall
    /\ nsucc = 0
    /\ oldLen = 0
    /\ lastOp = <<"init", 0>>

Init == RecvInit /\ SendInit

(* ------------------------- receive side -------------------------------- *)
\* a step that is not a second release() and touches no kept sptr
NoRerelease == kept' = kept /\ relAgain' = NULL

\* a datagram of d bytes arrives from the peer
Arrive(d) ==
    /\ Len(sock) < MaxSock
    /\ sock' = Append(sock, d)
    /\ everArrived' = TRUE
    /\ UNCHANGED <<pending, len, pc, mrb, tmo, phase, waited, result, handles>>
    /\ NoRerelease
    /\ UNCHANGED sendVars

\* get_recv_buff(timeout) is entered
GetRecvBuff(t, timeout) ==
    /\ pc[t] = "idle"
    /\ kept[t] = {}
    /\ pc' = [pc EXCEPT ![t] = "pop"]
    /\ mrb' = [mrb EXCEPT ![t] = NULL]
    /\ tmo' = [tmo EXCEPT ![t] = timeout]
    /\ phase' = [phase EXCEPT ![t] = 0]
    /\ waited' = [waited EXCEPT ![t] = 0]
    /\ result' = [result EXCEPT ![t] = NoCall]
    /\ UNCHANGED <<pending, len, sock, handles, everArrived>>
    /\ NoRerelease
    /\ UNCHANGED sendVars

\* the call returns: its locals and arguments go out of scope
Return(t) ==
    /\ pc' = [pc EXCEPT ![t] = "idle"]
    /\ mrb' = [mrb EXCEPT ![t] = NULL]
    /\ tmo' = [tmo EXCEPT ![t] = 0]
    /\ phase' = [phase EXCEPT ![t] = 0]
    /\ waited' = [waited EXCEPT ![t] = 0]

\* pop_with_timed_wait takes an entry
PopOk(t, k) ==
    /\ pc[t] = "pop"
    /\ k \in 1 .. Len(pending)
    /\ mrb' = [mrb EXCEPT ![t] = pending[k]]
    /\ pending' = RemoveAt(pending, k)
    /\ pc' = [pc EXCEPT ![t] = "recv1"]
    /\ UNCHANGED <<len, sock, tmo, phase, waited, result, handles, everArrived>>
    /\ NoRerelease
    /\ UNCHANGED sendVars

\* pop_with_timed_wait blocks for one more tick on the empty queue
PopTick(t) ==
    /\ pc[t] = "pop"
    /\ pending = <<>>
    /\ phase[t] < tmo[t]
    /\ phase' = [phase EXCEPT ![t] = @ + 1]
    /\ waited' = [waited EXCEPT ![t] = @ + 1]
    /\ UNCHANGED <<pending, len, sock, pc, mrb, tmo, result, handles, everArrived>>
    /\ NoRerelease
    /\ UNCHANGED sendVars

\* pop_with_timed_wait times out: get_recv_buff returns an empty sptr
PopTimeout(t) ==
    /\ pc[t] = "pop"
    /\ pending = <<>>
    /\ phase[t] = tmo[t]
    /\ result' = [result EXCEPT ![t] = None]
    /\ Return(t)
    /\ UNCHANGED <<pending, len, sock, handles, everArrived>>
    /\ NoRerelease
    /\ UNCHANGED sendVars

\* udp_zero_copy_asio_mrb::get_new(n): set the length, hand the buffer out
get_new_mrb(t, n) ==
    /\ len' = [len EXCEPT ![mrb[t]] = n]
    /\ handles' = [handles EXCEPT ![t] = @ \cup {mrb[t]}]
    /\ result' = [result EXCEPT ![t] = mrb[t]]
    /\ Return(t)

\* the first, non-blocking ::recv and `if (ret > 0) return mrb->get_new(ret)`
Recv1(t) ==
    /\ pc[t] = "recv1"
    /\ sock' = recv_rest(sock)
    /\ IF recv_ret(sock) > 0
          THEN get_new_mrb(t, to_size_t(recv_ret(sock)))
          ELSE /\ pc' = [pc EXCEPT ![t] = "wait"]
               /\ phase' = [phase EXCEPT ![t] = 0]
               /\ UNCHANGED <<len, handles, result, mrb, tmo, waited>>
    /\ UNCHANGED <<pending, everArrived>>
    /\ NoRerelease
    /\ UNCHANGED sendVars

\* wait_for_recv_ready(_sock_fd, timeout) blocks for one more tick
WaitTick(t) ==
    /\ pc[t] = "wait"
    /\ ~recv_ready(sock)
    /\ phase[t] < tmo[t]
    /\ phase' = [phase EXCEPT ![t] = @ + 1]
    /\ waited' = [waited EXCEPT ![t] = @ + 1]
    /\ UNCHANGED <<pending, len, sock, pc, mrb, tmo, result, handles, everArrived>>
    /\ NoRerelease
    /\ UNCHANGED sendVars

\* wait_for_recv_ready returns true
WaitReady(t) ==
    /\ pc[t] = "wait"
    /\ recv_ready(sock)
    /\ pc' = [pc EXCEPT ![t] = "recv2"]
    /\ UNCHANGED <<pending, len, sock, mrb, tmo, phase, waited, result, handles,
                   everArrived>>
    /\ NoRerelease
    /\ UNCHANGED sendVars

\* WaitTimeout with the push to the queue forgotten
WaitTimeout_nopush(t) ==
    /\ pc[t] = "wait"
    /\ ~recv_ready(sock)
    /\ phase[t] = tmo[t]
    /\ result' = [result EXCEPT ![t] = None]
    /\ Return(t)
    /\ UNCHANGED <<pending, len, sock, handles, everArrived>>
    /\ NoRerelease
    /\ UNCHANGED sendVars

\* wait_for_recv_ready returns false: push the buffer back, return empty
WaitTimeout(t) ==
    /\ pc[t] = "wait"
    /\ ~recv_ready(sock)
    /\ phase[t] = tmo[t]
    /\ pending' = push_with_haste(pending, mrb[t])
    /\ result' = [result EXCEPT ![t] = None]
    /\ Return(t)
    /\ UNCHANGED <<len, sock, handles, everArrived>>
    /\ NoRerelease
    /\ UNCHANGED sendVars

\* Recv2 falling through to the push of the timeout path after get_new
Recv2_fallthrough(t) ==
    /\ pc[t] = "recv2"
    /\ sock' = recv_rest(sock)
    /\ get_new_mrb(t, to_size_t(recv_ret(sock)))
    /\ pending' = push_with_haste(pending, mrb[t])
    /\ UNCHANGED everArrived
    /\ NoRerelease
    /\ UNCHANGED sendVars

\* the second ::recv, whose result goes to get_new unchecked
Recv2(t) ==
    /\ pc[t] = "recv2"
    /\ sock' = recv_rest(sock)
    /\ get_new_mrb(t, to_size_t(recv_ret(sock)))
    /\ UNCHANGED <<pending, everArrived>>
    /\ NoRerelease
    /\ UNCHANGED sendVars

\* release_mrb without the `if (_len == 0) return` guard
release_mrb_unguarded(t, b) ==
    /\ pending' = push_with_haste(pending, b)
    /\ pc' = [pc EXCEPT ![t] = "rel"]
    /\ mrb' = [mrb EXCEPT ![t] = b]

\* udp_zero_copy_asio_mrb::release on buffer b, up to and including
\* push_with_haste
release_mrb(t, b) ==
    IF len[b] = 0
       THEN UNCHANGED <<pending, pc, mrb>>
       ELSE /\ pending' = push_with_haste(pending, b)
            /\ pc' = [pc EXCEPT ![t] = "rel"]
            /\ mrb' = [mrb EXCEPT ![t] = b]

\* the caller's sptr goes out of scope: release() is called once
Release(t, b) ==
    /\ pc[t] = "idle"
    /\ kept[t] = {}
    /\ b \in handles[t]
    /\ handles' = [handles EXCEPT ![t] = @ \ {b}]
    /\ release_mrb(t, b)
    /\ UNCHANGED <<len, sock, tmo, phase, waited, result, everArrived>>
    /\ NoRerelease
    /\ UNCHANGED sendVars

\* the caller calls release() itself and keeps the sptr; its next operation
\* is the second release() of that sptr
ReleaseKeep(t, b) ==
    /\ pc[t] = "idle"
    /\ kept[t] = {}
    /\ b \in handles[t]
    /\ handles' = [handles EXCEPT ![t] = @ \ {b}]
    /\ kept' = [kept EXCEPT ![t] = @ \cup {b}]
    /\ release_mrb(t, b)
    /\ UNCHANGED <<len, sock, tmo, phase, waited, result, everArrived>>
    /\ relAgain' = NULL
    /\ UNCHANGED sendVars

\* nobody holds the buffer or is filling or releasing it
Quiescent(b) ==
    \A u \in Threads :
        /\ b \notin handles[u]
        /\ ~(pc[u] \in {"recv1", "wait", "recv2", "rel"} /\ mrb[u] = b)

\* release() is called a second time through the sptr that was kept, the
\* buffer not having been filled again in between
ReleaseAgain(t, b) ==
    /\ pc[t] = "idle"
    /\ b \in kept[t]
    /\ Quiescent(b)
    /\ kept' = [kept EXCEPT ![t] = @ \ {b}]
    /\ relAgain' = IF len[b] = 0 THEN b ELSE NULL
    /\ release_mrb(t, b)
    /\ UNCHANGED <<len, sock, tmo, phase, waited, result, handles, everArrived>>
    /\ UNCHANGED sendVars

\* udp_zero_copy_asio_mrb::release, the trailing `_len = 0`
ReleaseReset(t) ==
    /\ pc[t] = "rel"
    /\ len' = [len EXCEPT ![mrb[t]] = 0]
    /\ Return(t)
    /\ UNCHANGED <<pending, sock, result, handles, everArrived>>
    /\ NoRerelease
    /\ UNCHANGED sendVars

RecvNext ==
    \/ \E d \in 0 .. RecvFrameSize : Arrive(d)
    \/ \E t \in Threads : \E timeout \in 0 .. MaxTimeout : GetRecvBuff(t, timeout)
    \/ \E t \in Threads : \E k \in 1 .. NumRecvFrames : PopOk(t, k)
    \/ \E t \in Threads : PopTick(t)
    \/ \E t \in Threads : PopTimeout(t)
    \/ \E t \in Threads : Recv1(t)
    \/ \E t \in Threads : WaitTick(t)
    \/ \E t \in Threads : WaitReady(t)
    \/ \E t \in Threads : WaitTimeout(t)
    \/ \E t \in Threads : Recv2(t)
    \/ \E t \in Threads : \E b \in RecvBuffs : Release(t, b)
    \/ \E t \in Threads : ReleaseReset(t)

RecvSpec == Init /\ [][RecvNext]_vars

\* the receive side with callers that also call release() explicitly
RereleaseNext ==
    \/ RecvNext
    \/ \E t \in Threads : \E b \in RecvBuffs : ReleaseKeep(t, b)
    \/ \E t \in Threads : \E b \in RecvBuffs : ReleaseAgain(t, b)

RereleaseSpec == Init /\ [][RereleaseNext]_vars

(* --------------------------- send side --------------------------------- *)
\* wrap_index with the comparison off by one
wrap_index_late(ix) == IF ix > NumSendFrames THEN 0 ELSE ix

\* get_send_buff line 251: the index wraps to 0 when it has reached the end
wrap_index(ix) == IF ix = NumSendFrames THEN 0 ELSE ix

\* WaitSignalled with the result of the wait ignored
WaitSignalled_ignored(i) == i \in SendBuffs

\* WSAWaitForMultipleEvents on the buffer's event did not time out
WaitSignalled(i) == event[i]

\* commit without the `if (_committed) return` guard
commit_unguarded(i, n) ==
    /\ committed' = [committed EXCEPT ![i] = TRUE]
    /\ wsaLen' = [wsaLen EXCEPT ![i] = n]
    /\ IF n = 0
          THEN /\ event' = [event EXCEPT ![i] = TRUE]
               /\ UNCHANGED inFlight
          ELSE /\ inFlight' = [inFlight EXCEPT ![i] = @ + 1]
               /\ UNCHANGED event

\* commit with the `WSASetEvent` of the zero-length case forgotten
commit_nosignal(i, n) ==
    IF committed[i]
       THEN UNCHANGED <<committed, wsaLen, event, inFlight>>
       ELSE /\ committed' = [committed EXCEPT ![i] = TRUE]
            /\ wsaLen' = [wsaLen EXCEPT ![i] = n]
            /\ IF n = 0
                  THEN UNCHANGED <<event, inFlight>>
                  ELSE /\ inFlight' = [inFlight EXCEPT ![i] = @ + 1]
                       /\ UNCHANGED event

\* udp_zero_copy_asio_msb::commit(n) on buffer i
commit(i, n) ==
    IF committed[i]
       THEN UNCHANGED <<committed, wsaLen, event, inFlight>>
       ELSE /\ committed' = [committed EXCEPT ![i] = TRUE]
            /\ wsaLen' = [wsaLen EXCEPT ![i] = n]
            /\ IF n = 0
                  THEN /\ event' = [event EXCEPT ![i] = TRUE]
                       /\ UNCHANGED inFlight
                  ELSE /\ inFlight' = [inFlight EXCEPT ![i] = @ + 1]
                       /\ UNCHANGED event

\* udp_zero_copy_asio_msb::get_size
get_size_msb(i) == wsaLen[i]

\* get_send_buff(timeout) is entered: wrap the index, call get_new on that buffer
GetSendBuff ==
    /\ sendPc = "idle"
    /\ nsucc < MaxSendCalls
    /\ index' = wrap_index(index)
    /\ target' = wrap_index(index)
    /\ sendPc' = "get_new"
    /\ sendResult' = NoCall
    /\ lastOp' = <<"get_send_buff", wrap_index(index)>>
    /\ UNCHANGED <<committed, wsaLen, event, inFlight, sendHeld, handedOut, nsucc>>
    /\ UNCHANGED oldLen
    /\ UNCHANGED recvVars

\* GetNewTimeout with `index++` moved before the timeout test
GetNewTimeout_advance ==
    /\ sendPc = "get_new"
    /\ ~WaitSignalled(target)
    /\ index' = index + 1
    /\ sendResult' = None
    /\ sendPc' = "idle"
    /\ lastOp' = <<"timeout", target>>
    /\ UNCHANGED <<committed, wsaLen, event, inFlight, target, sendHeld,
                   handedOut, nsucc>>
    /\ UNCHANGED oldLen
    /\ UNCHANGED recvVars

\* get_new: the wait timed out, an empty sptr is returned
GetNewTimeout ==
    /\ sendPc = "get_new"
    /\ ~WaitSignalled(target)
    /\ sendResult' = None
    /\ sendPc' = "idle"
    /\ lastOp' = <<"timeout", target>>
    /\ UNCHANGED <<committed, wsaLen, event, inFlight, index, target, sendHeld,
                   handedOut, nsucc>>
    /\ UNCHANGED oldLen
    /\ UNCHANGED recvVars

\* GetNewOk with `index++` forgotten
GetNewOk_noadvance ==
    /\ sendPc = "get_new"
    /\ WaitSignalled(target)
    /\ event' = [event EXCEPT ![target] = FALSE]
    /\ committed' = [committed EXCEPT ![target] = FALSE]
    /\ wsaLen' = [wsaLen EXCEPT ![target] = SendFrameSize]
    /\ sendHeld' = [sendHeld EXCEPT ![target] = TRUE]
    /\ handedOut' = [handedOut EXCEPT ![target] = TRUE]
    /\ sendResult' = target
    /\ nsucc' = nsucc + 1
    /\ sendPc' = "idle"
    /\ lastOp' = <<"get_new", target>>
    /\ UNCHANGED <<inFlight, target, index>>
    /\ oldLen' = wsaLen[target]
    /\ UNCHANGED recvVars

\* GetNewOk with `WSAResetEvent` forgotten
GetNewOk_noreset ==
    /\ sendPc = "get_new"
    /\ WaitSignalled(target)
    /\ index' = index + 1
    /\ committed' = [committed EXCEPT ![target] = FALSE]
    /\ wsaLen' = [wsaLen EXCEPT ![target] = SendFrameSize]
    /\ sendHeld' = [sendHeld EXCEPT ![target] = TRUE]
    /\ handedOut' = [handedOut EXCEPT ![target] = TRUE]
    /\ sendResult' = target
    /\ nsucc' = nsucc + 1
    /\ sendPc' = "idle"
    /\ lastOp' = <<"get_new", target>>
    /\ UNCHANGED <<inFlight, target, event>>
    /\ oldLen' = wsaLen[target]
    /\ UNCHANGED recvVars

\* GetNewOk with the reset of _wsa_buff.len to _frame_size forgotten
GetNewOk_nolenreset ==
    /\ sendPc = "get_new"
    /\ WaitSignalled(target)
    /\ index' = index + 1
    /\ event' = [event EXCEPT ![target] = FALSE]
    /\ committed' = [committed EXCEPT ![target] = FALSE]
    /\ sendHeld' = [sendHeld EXCEPT ![target] = TRUE]
    /\ handedOut' = [handedOut EXCEPT ![target] = TRUE]
    /\ sendResult' = target
    /\ nsucc' = nsucc + 1
    /\ sendPc' = "idle"
    /\ lastOp' = <<"get_new", target>>
    /\ UNCHANGED <<inFlight, target, wsaLen>>
    /\ oldLen' = wsaLen[target]
    /\ UNCHANGED recvVars

\* get_new: the event was signalled, the buffer is handed out
GetNewOk ==
    /\ sendPc = "get_new"
    /\ WaitSignalled(target)
    /\ index' = index + 1
    /\ event' = [event EXCEPT ![target] = FALSE]
    /\ committed' = [committed EXCEPT ![target] = FALSE]
    /\ wsaLen' = [wsaLen EXCEPT ![target] = SendFrameSize]
    /\ sendHeld' = [sendHeld EXCEPT ![target] = TRUE]
    /\ handedOut' = [handedOut EXCEPT ![target] = TRUE]
    /\ sendResult' = target
    /\ nsucc' = nsucc + 1
    /\ sendPc' = "idle"
    /\ lastOp' = <<"get_new", target>>
    /\ UNCHANGED <<inFlight, target>>
    /\ oldLen' = wsaLen[target]
    /\ UNCHANGED recvVars

\* Commit that also advances the rotating index
Commit_advance(i, n) ==
    /\ sendPc = "idle"
    /\ handedOut[i]
    /\ inFlight[i] < MaxInFlight
    /\ commit(i, n)
    /\ index' = wrap_index(index) + 1
    /\ sendHeld' = [sendHeld EXCEPT ![i] = FALSE]
    /\ lastOp' = <<IF committed[i] THEN "recommit" ELSE "commit", i>>
    /\ UNCHANGED <<sendPc, target, handedOut, sendResult, nsucc>>
    /\ UNCHANGED oldLen
    /\ UNCHANGED recvVars

\* the caller calls commit(n) on a buffer it was given
Commit(i, n) ==
    /\ sendPc = "idle"
    /\ handedOut[i]
    /\ inFlight[i] < MaxInFlight
    /\ commit(i, n)
    /\ sendHeld' = [sendHeld EXCEPT ![i] = FALSE]
    /\ lastOp' = <<IF committed[i] THEN "recommit" ELSE "commit", i>>
    /\ UNCHANGED <<index, sendPc, target, handedOut, sendResult, nsucc>>
    /\ UNCHANGED oldLen
    /\ UNCHANGED recvVars

\* the OS completes an overlapped WSASend and signals the buffer's event
SendComplete(i) ==
    /\ inFlight[i] > 0
    /\ inFlight' = [inFlight EXCEPT ![i] = @ - 1]
    /\ event' = [event EXCEPT ![i] = TRUE]
    /\ lastOp' = <<"complete", i>>
    /\ UNCHANGED <<committed, wsaLen, index, sendPc, target, sendHeld, handedOut,
                   sendResult, nsucc>>
    /\ UNCHANGED oldLen
    /\ UNCHANGED recvVars

SendNext ==
    \/ GetSendBuff
    \/ GetNewTimeout
    \/ GetNewOk
    \/ \E i \in SendBuffs : \E n \in 0 .. SendFrameSize : Commit(i, n)
    \/ \E i \in SendBuffs : SendComplete(i)

SendSpec == Init /\ [][SendNext]_vars

\* the caller commits a buffer it was handed and has not committed yet
CommitHeld == \E i \in SendBuffs : \E n \in 0 .. SendFrameSize :
                  sendHeld[i] /\ Commit(i, n)

\* the send side with a caller that commits every buffer it acquires and
\* retries get_send_buff, and an OS that completes every submitted send
SendLiveSpec ==
    /\ Init
    /\ [][SendNext]_vars
    /\ WF_vars(GetSendBuff)
    /\ WF_vars(GetNewOk)
    /\ WF_vars(GetNewTimeout)
    /\ SF_vars(CommitHeld)
    /\ \A i \in SendBuffs : WF_vars(SendComplete(i))

Next == RecvNext \/ SendNext

Spec == Init /\ [][Next]_vars

(* ======================= properties: receive side ====================== *)
\* the buffer is being filled by a get_recv_buff call in progress
InFlightRecv(b) ==
    \E t \in Threads : pc[t] \in {"recv1", "wait", "recv2"} /\ mrb[t] = b

\* the buffer was handed out by get_recv_buff and not yet released
HeldRecv(b) == \E t \in Threads : b \in handles[t]

\* C1: in every reachable state a receive buffer's handle is in the pending
\* queue if and only if the buffer is neither being filled by a call in
\* progress nor held by a caller.
C1_QueueIffFree ==
    \A b \in RecvBuffs : InQueue(b) <=> ~(InFlightRecv(b) \/ HeldRecv(b))

\* C2: one release() of a buffer handed out by get_recv_buff puts its handle
\* back into the pending queue.
C2_ReleaseRequeues ==
    [][\A t \in Threads : \A b \in RecvBuffs :
          (b \in handles[t] /\ b \notin handles'[t])
             => (\E k \in 1 .. Len(pending') : pending'[k] = b)]_vars

\* C6: a get_recv_buff that popped a buffer and timed out pushes it back and
\* returns none; while no datagram has ever arrived every call returns none
\* and, once all calls have returned, the queue holds all NumRecvFrames
\* handles again.
C6_TimeoutRequeues ==
    /\ [](~everArrived =>
            /\ \A t \in Threads : result[t] \in {NoCall, None}
            /\ (\A t \in Threads : pc[t] = "idle") =>
                  /\ Len(pending) = NumRecvFrames
                  /\ \A b \in RecvBuffs : InQueue(b))
    /\ [][\A t \in Threads :
            (pc[t] = "wait" /\ pc'[t] = "idle") =>
               /\ result'[t] = None
               /\ pending' = Append(pending, mrb[t])]_vars

\* every thread has called get_recv_buff with no data and got none back
C6_Witness ==
    /\ ~everArrived
    /\ \A t \in Threads : pc[t] = "idle" /\ result[t] = None
    /\ Len(pending) = NumRecvFrames

\* C7: a get_recv_buff(timeout) call blocks for at most timeout in total
\* (queue pop plus readiness wait).
C7_BlocksAtMostTimeout ==
    \A t \in Threads : waited[t] <= tmo[t]

\* C8: while a caller holds a receive buffer its length stays what it was
\* filled with, whatever other threads' release() and get_recv_buff calls do.
C8_LengthKeptWhileHeld ==
    [][\A t \in Threads : \A b \in RecvBuffs :
          (b \in handles[t] /\ b \in handles'[t]) => len'[b] = len[b]]_vars

\* C9: a ::recv that yields a zero-length datagram, on the first attempt or
\* on the attempt after readiness, hands the caller the buffer with length 0.
C9_ZeroLengthSurfaced ==
    [][\A t \in Threads :
          (pc[t] \in {"recv1", "recv2"} /\ pc'[t] # pc[t] /\ recv_ret(sock) = 0)
             => /\ result'[t] = mrb[t]
                /\ mrb[t] \in handles'[t]
                /\ len'[mrb[t]] = 0]_vars

(* ======================== properties: send side ======================== *)
\* C3: no send buffer is at once held by a caller (writable) and the subject
\* of an outstanding asynchronous send.
C3_NoWriteDuringSend ==
    \A i \in SendBuffs : ~(sendHeld[i] /\ inFlight[i] > 0)

\* get_send_buff has timed out on a buffer whose send is still outstanding
C3_Witness ==
    \E i \in SendBuffs :
        lastOp = <<"timeout", i>> /\ inFlight[i] > 0 /\ ~sendHeld[i]

\* C4: the k-th successful get_send_buff returns buffer (k-1) mod
\* NumSendFrames, whatever timed-out calls happen in between.
C4_RoundRobin ==
    sendResult >= 0 => sendResult = (nsucc - 1) % NumSendFrames

\* the rotation has wrapped: buffer 0 is handed out a second time
C4_Witness ==
    sendResult = 0 /\ nsucc = NumSendFrames + 1

\* C5: a timed-out get_send_buff returns none and leaves the buffers' flags,
\* lengths and signals and the selected buffer as they were, so the next call
\* targets the same buffer; the index advances by exactly one on a successful
\* call and only then.
C5_TimeoutChangesNothing ==
    [][/\ (sendPc = "get_new" /\ sendPc' = "idle" /\ sendResult' = None) =>
            /\ UNCHANGED <<committed, wsaLen, event, inFlight>>
            /\ wrap_index(index') = wrap_index(index)
       /\ (sendPc = "get_new" /\ sendPc' = "idle" /\ sendResult' # None) =>
            index' = wrap_index(index) + 1
       /\ ~(sendPc = "get_new" /\ sendPc' = "idle" /\ sendResult' # None) =>
            wrap_index(index') = wrap_index(index)
       /\ (sendPc = "idle" /\ sendPc' = "get_new" /\ sendResult = None) =>
            target' = target]_vars

\* a call has timed out right after the index had reached NumSendFrames
C5_Witness ==
    /\ sendPc = "idle"
    /\ sendResult = None
    /\ lastOp = <<"timeout", 0>>
    /\ index = 0
    /\ nsucc >= NumSendFrames

\* C10: each send buffer has at most one uncompleted send, and commit on a
\* buffer that is already committed submits nothing and leaves the flag, the
\* length and the completion signal unchanged.
C10_OneSendPerBuffer ==
    /\ [](\A i \in SendBuffs : inFlight[i] <= 1 /\ (inFlight[i] = 1 => committed[i]))
    /\ [][\A i \in SendBuffs :
            (committed[i] /\ lastOp' = <<"recommit", i>>) =>
               /\ committed'[i] = committed[i]
               /\ wsaLen'[i] = wsaLen[i]
               /\ event'[i] = event[i]
               /\ inFlight'[i] = inFlight[i]]_vars

\* commit was called on a buffer whose send is still outstanding
C10_Witness ==
    \E i \in SendBuffs : lastOp = <<"recommit", i>> /\ inFlight[i] = 1

\* C11 as stated: on a fresh transport, with the first buffer handed out and
\* not committed, the second get_send_buff call does not return a buffer.
C11_SecondCallBlocks ==
    [][(sendPc = "get_new" /\ nsucc = 1 /\ sendHeld[0] /\ sendPc' = "idle")
          => sendResult' = None]_vars

\* C11 amended: on a fresh transport whose first buffer is never committed,
\* the second call is given buffer 1 at once; it is the call after
\* NumSendFrames successes, targeting buffer 0 again, that finds the event
\* unsignalled and can only return none.
C11_CallAfterFullRoundBlocks ==
    /\ []((sendPc = "get_new" /\ nsucc = 1) => (target = 1 /\ event[1]))
    /\ [][(sendPc = "get_new" /\ nsucc = NumSendFrames /\ sendHeld[0]) =>
            /\ target = 0
            /\ ~event[0]
            /\ sendPc' = "idle" => sendResult' = None]_vars

\* the call after a full round has timed out on the uncommitted buffer 0
C11_Witness ==
    /\ nsucc = NumSendFrames
    /\ sendHeld[0]
    /\ sendPc = "idle"
    /\ sendResult = None
    /\ lastOp = <<"timeout", 0>>

\* C12: a second release() right after a first one, with no fill in between,
\* changes nothing: the length is 0 and stays 0 and the queue is as after
\* the first release.
C12_ReleaseIdempotent ==
    [][\A t \in Threads : \A b \in RecvBuffs :
          (b \in kept[t] /\ b \notin kept'[t]) =>
             /\ len[b] = 0
             /\ len' = len
             /\ pending' = pending
             /\ pc'[t] = "idle"]_vars

\* release() has been called a second time on a buffer of length 0 that the
\* first release had put back into the queue
C12_Witness ==
    /\ relAgain # NULL
    /\ InQueue(relAgain)
    /\ len[relAgain] = 0

\* number of sptrs to receive buffers that callers hold
RECURSIVE HeldCount(_)
HeldCount(n) ==
    IF n = 0 THEN 0 ELSE Cardinality(handles[n]) + HeldCount(n - 1)

\* C13: the pending queue holds each handle at most once, the handles in the
\* queue plus the buffers held by callers never exceed NumRecvFrames, and
\* every push_with_haste (from release and from the timeout path) finds room.
C13_QueueNeverOverfull ==
    /\ [](/\ \A j, k \in 1 .. Len(pending) : pending[j] = pending[k] => j = k
          /\ Len(pending) + HeldCount(NumThreads) <= NumRecvFrames)
    /\ [][\A t \in Threads :
            (\/ pc[t] = "idle" /\ pc'[t] = "rel"
             \/ pc[t] = "wait" /\ pc'[t] = "idle") =>
               /\ Len(pending) < NumRecvFrames
               /\ Len(pending') = Len(pending) + 1]_vars

\* a release has just pushed the last missing handle: the queue is full again
C13_Witness ==
    /\ \E t \in Threads : pc[t] = "rel"
    /\ Len(pending) = NumRecvFrames

\* C14: whatever length a send buffer was committed with, when get_send_buff
\* hands it out again it reports the send frame size and is not committed,
\* and stays so while the caller holds it.
C14_SizeResetOnAcquire ==
    /\ [](\A i \in SendBuffs :
            sendHeld[i] => (get_size_msb(i) = SendFrameSize /\ ~committed[i]))
    /\ [][(sendPc = "get_new" /\ sendPc' = "idle" /\ sendResult' # None) =>
            /\ wsaLen'[target] = SendFrameSize
            /\ ~committed'[target]]_vars

\* a buffer committed with a length that is neither 0 nor the frame size has
\* been handed out again
C14_Witness ==
    /\ lastOp[1] = "get_new"
    /\ sendHeld[lastOp[2]]
    /\ oldLen # 0
    /\ oldLen # SendFrameSize
    /\ get_size_msb(lastOp[2]) = SendFrameSize

\* C15 as stated: the index is changed only by the orchestrator's own step of
\* get_send_buff, never by a step of a managed send buffer (commit, get_new).
C15_OnlyOrchestratorWrites ==
    [][index' # index => lastOp' = <<"get_send_buff", index'>>]_vars

\* C15 amended: the index is changed only inside a get_send_buff call, by the
\* orchestrator's wrap to 0 and by the `index++` that the acquired buffer's
\* get_new does on success through the reference it is passed; commit and the
\* completion of a send never change it.
C15_IndexWrittenOnlyInGetSendBuff ==
    [][index' # index =>
          \/ /\ sendPc = "idle" /\ sendPc' = "get_new"
             /\ index = NumSendFrames /\ index' = 0
          \/ /\ sendPc = "get_new" /\ sendPc' = "idle"
             /\ sendResult' = target /\ index' = index + 1]_vars

\* get_new has advanced the index after commits had been made
C15_Witness ==
    /\ lastOp[1] = "get_new"
    /\ index = lastOp[2] + 1
    /\ \E i \in SendBuffs : committed[i] /\ handedOut[i]

\* C16: a send buffer that was acquired and is not committed stays
\* unsignalled; acquiring it advanced the index past it, and every later
\* get_send_buff call that targets it returns none and leaves the index at it.
C16_AbandonedBufferBlocks ==
    /\ [](\A i \in SendBuffs : sendHeld[i] => (~event[i] /\ ~committed[i]))
    /\ [][/\ (sendPc = "get_new" /\ sendPc' = "idle" /\ sendResult' # None) =>
               (sendHeld'[target] /\ index' = target + 1)
          /\ (sendPc = "get_new" /\ sendHeld[target]) =>
               /\ index = target
               /\ sendPc' = "idle" => (sendResult' = None /\ index' = target)]_vars

\* buffer 1 was abandoned, the other buffers were acquired in turn after it,
\* and the call that came back to buffer 1 has timed out
C16_Witness ==
    /\ sendHeld[1]
    /\ nsucc = NumSendFrames + 1
    /\ lastOp = <<"timeout", 1>>
    /\ sendResult = None
    /\ index = 1

\* C17: until it is first acquired every send buffer is committed with length
\* 0, signalled and without a submitted send, and each of the first
\* NumSendFrames get_send_buff calls finds its buffer signalled, whether or
\* not the buffers acquired before it were committed.
C17_FreshBuffersAvailable ==
    /\ \A i \in SendBuffs :
          i >= nsucc =>
             (committed[i] /\ wsaLen[i] = 0 /\ event[i] /\ inFlight[i] = 0)
    /\ (sendPc = "get_new" /\ nsucc < NumSendFrames) =>
          (target = nsucc /\ event[target])
    /\ (sendPc = "idle" /\ nsucc < NumSendFrames) => sendResult # None

\* the last fresh buffer was acquired while the send committed from the first
\* one is still outstanding
C17_Witness ==
    /\ nsucc = NumSendFrames
    /\ lastOp = <<"get_new", NumSendFrames - 1>>
    /\ committed[0]
    /\ inFlight[0] = 1

\* C18: every buffer that get_recv_buff has handed out reports a length
\* between 0 and RecvFrameSize, under every interleaving of concurrent calls.
C18_LengthWithinFrame ==
    \A t \in Threads : \A b \in handles[t] : len[b] \in 0 .. RecvFrameSize

\* C19: the stored rotating index lies in 0..NumSendFrames and the index used
\* to select a send buffer inside get_send_buff lies in 0..NumSendFrames-1.
C19_IndexInRange ==
    /\ index \in 0 .. NumSendFrames
    /\ sendPc = "get_new" => (target \in SendBuffs /\ index = target)

\* the stored index had reached NumSendFrames and was wrapped to 0 before use
C19_Witness ==
    /\ sendPc = "get_new"
    /\ nsucc >= NumSendFrames
    /\ lastOp = <<"get_send_buff", 0>>
    /\ index = 0

\* C20: with every acquired buffer committed and every submitted send
\* completing, a sender that retries get_send_buff after each timeout is
\* eventually given a buffer.
C20_SenderEventuallyServed ==
    (sendPc = "get_new") ~> (sendPc = "idle" /\ sendResult # None)

\* a buffer whose send had to complete first has been handed out again
C20_Witness ==
    /\ lastOp[1] = "get_new"
    /\ sendResult = lastOp[2]
    /\ nsucc > NumSendFrames
    /\ oldLen > 0

====
